---- MODULE Spec2Model ----
(***************************************************************************)
(* A model of scrape_bga.py: the BGA ladder scraper.  The database is the  *)
(* set of sqlite tables the script reads and writes, the archive is the    *)
(* directory of trace files, and a run is one of the scrape_* drivers.     *)
(* Columns the script only copies from the record into the flight row      *)
(* (scores, flags, timestamps) carry no behaviour and are left out.        *)
(***************************************************************************)
EXTENDS Integers, Sequences, FiniteSets, TLC

\* Python None / SQL NULL where an integer is expected.
None == -1
\* dict.get on a missing key (Python None) where a string is expected.
Absent == "None"

(***************************************************************************)
(* Bounds of the model.                                                    *)
(***************************************************************************)
MaxFlightID == 2
MaxTP == 2
MaxPages == 3
MaxDays == 2
PageSize == 2

(***************************************************************************)
(* The values upstream records are built from.                            *)
(***************************************************************************)
FlightIDs == 1..MaxFlightID
Forenames == {"Ann", "Bob"}
Surnames == {"Lee"}
PilotIDs == {1, 2, None}
ClubIDs == {"LAS", "CAM"}
GliderNames == {"ASW20", "LS8"}
GliderCodes == {1, 2}
Registrations == {"G-CABC", "G-DXYZ"}
Bytes == {"A", "B"}

\* A FlightDate is kept as its tokens, so that parsing has something to check.
GoodDate == <<"2021", "-", "06", "-", "01", "T", "12", ":", "30", ":", "00">>
SpaceDate == <<"2021", "-", "06", "-", "01", " ", "12", ":", "30", ":", "00">>
ShortDate == <<"2021", "-", "06", "-", "01">>
FlightDates == {GoodDate, SpaceDate, ShortDate}

\* The code of the turnpoint at each place of a task, when the record has one.
StartCode == "S"
FinishCode == "F"
TPCode(i) == <<"T1", "T2", "T3", "T4", "T5">>[i]

\* What the ladder service answers to a trace download.
Responses ==
    {[status |-> 200, content |-> b] : b \in Bytes}
        \cup {[status |-> 404, content |-> ""]}

(***************************************************************************)
(* sqlite: tables are sequences of rows, a row's id is its position (an    *)
(* INTEGER PRIMARY KEY of a table nothing is deleted from).                *)
(***************************************************************************)
EmptyDB ==
    [pilot |-> <<>>, club |-> <<>>, glider_model |-> <<>>, glider |-> <<>>,
     trace |-> <<>>, task |-> <<>>, flight |-> <<>>]

\* SQL "=": never true when either side is NULL.
SqlEqInt(a, b) == a # None /\ b # None /\ a = b
SqlEqStr(a, b) == a # Absent /\ b # Absent /\ a = b

Min(S) == CHOOSE x \in S : \A y \in S : x <= y

Rows(t) == 1..Len(t)

\* cur.fetchone() of "select (id) from ...": the first matching row's id, or
\* None when no row matches.
FetchOneId(hits) == IF hits = {} THEN None ELSE Min(hits)

Ok(db, id) == [db |-> db, ret |-> id, err |-> "ok"]
Raise(db, e) == [db |-> db, ret |-> None, err |-> e]

\* cur.fetchone()[0]: subscripting None raises TypeError.
Subscript0(db, id) == IF id = None THEN Raise(db, "TypeError") ELSE Ok(db, id)

\* The UNIQUE columns: a second row with the same non-NULL value is refused.
PilotLadderIdTaken(db, ladder_id) ==
    \E i \in Rows(db.pilot) : SqlEqInt(db.pilot[i].ladder_id, ladder_id)
ClubLadderCodeTaken(db, ladder_code) ==
    \E i \in Rows(db.club) : SqlEqStr(db.club[i].ladder_code, ladder_code)
GliderModelLadderIdTaken(db, ladder_id) ==
    \E i \in Rows(db.glider_model) : SqlEqInt(db.glider_model[i].ladder_id, ladder_id)
GliderRegTaken(db, reg) ==
    \E i \in Rows(db.glider) : SqlEqStr(db.glider[i].reg, reg)
TraceHashTaken(db, sha256_hash) ==
    \E i \in Rows(db.trace) : db.trace[i].sha256_hash = sha256_hash
FlightLadderIdTaken(db, ladder_id) ==
    \E i \in Rows(db.flight) : SqlEqInt(db.flight[i].ladder_id, ladder_id)

GetOrCreatePilot(db, forename, surname, ladder_id) ==
    LET existing == FetchOneId({i \in Rows(db.pilot) :
                        /\ SqlEqStr(db.pilot[i].forename, forename)
                        /\ SqlEqStr(db.pilot[i].surname, surname)
                        /\ SqlEqInt(db.pilot[i].ladder_id, ladder_id)})
        row == [forename |-> forename, surname |-> surname, ladder_id |-> ladder_id]
        db2 == [db EXCEPT !.pilot = Append(@, row)]
    IN  IF existing # None THEN Ok(db, existing)
        ELSE IF PilotLadderIdTaken(db, ladder_id) THEN Raise(db, "IntegrityError")
        ELSE Subscript0(db2, FetchOneId({i \in Rows(db2.pilot) :
                                SqlEqInt(db2.pilot[i].ladder_id, ladder_id)}))

GetOrCreateClub(db, bgal_club_code) ==
    LET existing == FetchOneId({i \in Rows(db.club) :
                        SqlEqStr(db.club[i].ladder_code, bgal_club_code)})
        db2 == [db EXCEPT !.club = Append(@, [ladder_code |-> bgal_club_code])]
    IN  IF existing # None THEN Ok(db, existing)
        ELSE IF ClubLadderCodeTaken(db, bgal_club_code) THEN Raise(db, "IntegrityError")
        ELSE Subscript0(db2, FetchOneId({i \in Rows(db2.club) :
                                SqlEqStr(db2.club[i].ladder_code, bgal_club_code)}))

GetOrCreateGliderModel(db, model_name, bgal_model_id) ==
    LET existing == FetchOneId({i \in Rows(db.glider_model) :
                        SqlEqStr(db.glider_model[i].model_name, model_name)})
        row == [model_name |-> model_name, ladder_id |-> bgal_model_id]
        db2 == [db EXCEPT !.glider_model = Append(@, row)]
    IN  IF existing # None THEN Ok(db, existing)
        ELSE IF GliderModelLadderIdTaken(db, bgal_model_id)
        THEN Raise(db, "IntegrityError")
        ELSE Subscript0(db2, FetchOneId({i \in Rows(db2.glider_model) :
                                SqlEqInt(db2.glider_model[i].ladder_id, bgal_model_id)}))

\* Mutant: an existing glider is given the model of the record at hand.
GetOrCreateGlider_UpdateModel(db, reg, model_id) ==
    LET existing == FetchOneId({i \in Rows(db.glider) : SqlEqStr(db.glider[i].reg, reg)})
        db2 == [db EXCEPT !.glider = Append(@, [reg |-> reg, model |-> model_id])]
    IN  IF existing # None
        THEN Ok([db EXCEPT !.glider[existing].model = model_id], existing)
        ELSE IF GliderRegTaken(db, reg) THEN Raise(db, "IntegrityError")
        ELSE Subscript0(db2, FetchOneId({i \in Rows(db2.glider) :
                                SqlEqStr(db2.glider[i].reg, reg)}))

GetOrCreateGlider(db, reg, model_id) ==
    LET existing == FetchOneId({i \in Rows(db.glider) : SqlEqStr(db.glider[i].reg, reg)})
        db2 == [db EXCEPT !.glider = Append(@, [reg |-> reg, model |-> model_id])]
    IN  IF existing # None THEN Ok(db, existing)
        ELSE IF GliderRegTaken(db, reg) THEN Raise(db, "IntegrityError")
        ELSE Subscript0(db2, FetchOneId({i \in Rows(db2.glider) :
                                SqlEqStr(db2.glider[i].reg, reg)}))

(***************************************************************************)
(* insert_task                                                             *)
(***************************************************************************)
\* maybe_append's test: None and "" are not turnpoints.
IsCode(code) == ~(code = Absent \/ code = "")

MaybeAppend(codes, code) == IF IsCode(code) THEN Append(codes, code) ELSE codes

\* flight_details.get(f"TP{i}"): the record's keys stop at some TP.
GetTP(fd, i) == IF i \in DOMAIN fd.TP THEN fd.TP[i] ELSE Absent

\* Mutant: a missing or empty TP is skipped and the scan goes on to the last key.
ScanTPs_SkipGaps(fd, i, codes) == codes \o SelectSeq(fd.TP, IsCode)

\* for i in itertools.count(1): stop at the first TP that is missing or empty.
RECURSIVE ScanTPs(_, _, _)
ScanTPs(fd, i, codes) ==
    IF IsCode(GetTP(fd, i)) THEN ScanTPs(fd, i + 1, Append(codes, GetTP(fd, i)))
    ELSE codes

TurnpointCodes(fd) ==
    MaybeAppend(ScanTPs(fd, 1, MaybeAppend(<<>>, fd.StartPoint)), fd.FinishPoint)

\* Mutant: the count is of the task rows, not of the distinct ids among them.
CountDistinctTaskIds_AllRows(db) == Len(db.task)

\* select count(distinct id) from task
CountDistinctTaskIds(db) == Cardinality({db.task[i].id : i \in Rows(db.task)})

\* enumerate(turnpoint_codes): positions from 0.
TaskRows(task_id, codes) ==
    [i \in 1..Len(codes) |->
        [id |-> task_id, turnpoint_index |-> i - 1, turnpoint_code |-> codes[i]]]

InsertTask(db, fd) ==
    LET task_id == CountDistinctTaskIds(db)
    IN  Ok([db EXCEPT !.task = @ \o TaskRows(task_id, TurnpointCodes(fd))], task_id)

(***************************************************************************)
(* download_and_archive_trace                                              *)
(***************************************************************************)
\* hashlib.sha256(content).hexdigest(), by its leading hex digits.
Sha256(content) ==
    CASE content = "A" -> <<"5", "5", "9", "a", "e", "a", "d", "0">>
      [] content = "B" -> <<"d", "f", "7", "e", "7", "0", "e", "5">>
      [] OTHER -> <<"e", "3", "b", "0", "c", "4", "4", "2">>

\* Path(sha256_hash[0], sha256_hash[1], sha256_hash) under archive_root.
ArchivePath(sha256_hash) ==
    [dir1 |-> sha256_hash[1], dir2 |-> sha256_hash[2], name |-> sha256_hash]

\* open(full_path, "wb") and write: the file at that path now holds content.
WriteFile(files, path, content) ==
    {f \in files : f.path # path} \cup {[path |-> path, content |-> content]}

\* requests_get: any status but 200 raises NotFound.
RequestsGetFails(resp) == resp.status # 200

\* Mutant: a file that is already at the path is left as it is.
DownloadAndArchiveTrace_KeepFile(db, files, fd, resp) ==
    LET sha256_hash == Sha256(resp.content)
        existing == FetchOneId({i \in Rows(db.trace) :
                        db.trace[i].sha256_hash = sha256_hash})
        row == [original_filename |-> fd.LoggerFile, sha256_hash |-> sha256_hash]
        db2 == [db EXCEPT !.trace = Append(@, row)]
        got == Subscript0(db2, FetchOneId({i \in Rows(db2.trace) :
                                    db2.trace[i].sha256_hash = sha256_hash}))
        there == \E f \in files : f.path = ArchivePath(sha256_hash)
        written == IF there THEN files
                   ELSE WriteFile(files, ArchivePath(sha256_hash), resp.content)
    IN  IF RequestsGetFails(resp)
        THEN [db |-> db, files |-> files, writes |-> 0, ret |-> None, err |-> "ok"]
        ELSE IF existing # None
        THEN [db |-> db, files |-> files, writes |-> 0, ret |-> existing, err |-> "ok"]
        ELSE IF TraceHashTaken(db, sha256_hash)
        THEN [db |-> db, files |-> written, writes |-> IF there THEN 0 ELSE 1,
              ret |-> None, err |-> "IntegrityError"]
        ELSE [db |-> got.db, files |-> written, writes |-> IF there THEN 0 ELSE 1,
              ret |-> got.ret, err |-> got.err]

\* Mutant: with an existing row the file is written all the same.
DownloadAndArchiveTrace_WriteAnyway(db, files, fd, resp) ==
    LET sha256_hash == Sha256(resp.content)
        existing == FetchOneId({i \in Rows(db.trace) :
                        db.trace[i].sha256_hash = sha256_hash})
        row == [original_filename |-> fd.LoggerFile, sha256_hash |-> sha256_hash]
        db2 == [db EXCEPT !.trace = Append(@, row)]
        got == Subscript0(db2, FetchOneId({i \in Rows(db2.trace) :
                                    db2.trace[i].sha256_hash = sha256_hash}))
        written == WriteFile(files, ArchivePath(sha256_hash), resp.content)
    IN  IF RequestsGetFails(resp)
        THEN [db |-> db, files |-> files, writes |-> 0, ret |-> None, err |-> "ok"]
        ELSE IF existing # None
        THEN [db |-> db, files |-> written, writes |-> 1, ret |-> existing, err |-> "ok"]
        ELSE IF TraceHashTaken(db, sha256_hash)
        THEN [db |-> db, files |-> written, writes |-> 1, ret |-> None, err |-> "IntegrityError"]
        ELSE [db |-> got.db, files |-> written, writes |-> 1, ret |-> got.ret,
              err |-> got.err]

\* Mutant: NotFound from the download is not caught.
DownloadAndArchiveTrace_NoCatch(db, files, fd, resp) ==
    LET sha256_hash == Sha256(resp.content)
        existing == FetchOneId({i \in Rows(db.trace) :
                        db.trace[i].sha256_hash = sha256_hash})
        row == [original_filename |-> fd.LoggerFile, sha256_hash |-> sha256_hash]
        db2 == [db EXCEPT !.trace = Append(@, row)]
        got == Subscript0(db2, FetchOneId({i \in Rows(db2.trace) :
                                    db2.trace[i].sha256_hash = sha256_hash}))
        written == WriteFile(files, ArchivePath(sha256_hash), resp.content)
    IN  IF RequestsGetFails(resp)
        THEN [db |-> db, files |-> files, writes |-> 0, ret |-> None, err |-> "NotFound"]
        ELSE IF existing # None
        THEN [db |-> db, files |-> files, writes |-> 0, ret |-> existing, err |-> "ok"]
        ELSE IF TraceHashTaken(db, sha256_hash)
        THEN [db |-> db, files |-> written, writes |-> 1, ret |-> None, err |-> "IntegrityError"]
        ELSE [db |-> got.db, files |-> written, writes |-> 1, ret |-> got.ret,
              err |-> got.err]

\* Mutant: an existing trace is looked up by its file name, not by its hash.
DownloadAndArchiveTrace_ByFilename(db, files, fd, resp) ==
    LET sha256_hash == Sha256(resp.content)
        existing == FetchOneId({i \in Rows(db.trace) :
                        db.trace[i].original_filename = fd.LoggerFile})
        row == [original_filename |-> fd.LoggerFile, sha256_hash |-> sha256_hash]
        db2 == [db EXCEPT !.trace = Append(@, row)]
        got == Subscript0(db2, FetchOneId({i \in Rows(db2.trace) :
                                    db2.trace[i].sha256_hash = sha256_hash}))
        written == WriteFile(files, ArchivePath(sha256_hash), resp.content)
    IN  IF RequestsGetFails(resp)
        THEN [db |-> db, files |-> files, writes |-> 0, ret |-> None, err |-> "ok"]
        ELSE IF existing # None
        THEN [db |-> db, files |-> files, writes |-> 0, ret |-> existing, err |-> "ok"]
        ELSE [db |-> got.db, files |-> written, writes |-> 1, ret |-> got.ret,
              err |-> got.err]

DownloadAndArchiveTrace(db, files, fd, resp) ==
    LET sha256_hash == Sha256(resp.content)
        existing == FetchOneId({i \in Rows(db.trace) :
                        db.trace[i].sha256_hash = sha256_hash})
        row == [original_filename |-> fd.LoggerFile, sha256_hash |-> sha256_hash]
        db2 == [db EXCEPT !.trace = Append(@, row)]
        got == Subscript0(db2, FetchOneId({i \in Rows(db2.trace) :
                                    db2.trace[i].sha256_hash = sha256_hash}))
        written == WriteFile(files, ArchivePath(sha256_hash), resp.content)
    IN  IF RequestsGetFails(resp)
        THEN [db |-> db, files |-> files, writes |-> 0, ret |-> None, err |-> "ok"]
        ELSE IF existing # None
        THEN [db |-> db, files |-> files, writes |-> 0, ret |-> existing, err |-> "ok"]
        ELSE IF TraceHashTaken(db, sha256_hash)
        THEN [db |-> db, files |-> written, writes |-> 1, ret |-> None, err |-> "IntegrityError"]
        ELSE [db |-> got.db, files |-> written, writes |-> 1, ret |-> got.ret,
              err |-> got.err]

(***************************************************************************)
(* insert_bga_flight, statement by statement.  A context carries the       *)
(* cursor's view of the database, the archive and the locals; once an      *)
(* exception is raised the remaining statements do not run.                *)
(***************************************************************************)
Enter(db, files) ==
    [db |-> db, files |-> files, err |-> "ok", commit |-> FALSE, downloads |-> 0,
     pilot_id |-> None, club_id |-> None, glider_model_id |-> None,
     glider_id |-> None, trace_id |-> None, task_id |-> None,
     flight_date |-> <<>>]

\* Mutant: the lookup of the flight by ladder_id finds nothing.
FlightExists_Never(db, ladder_id) == FALSE

FlightExists(db, ladder_id) ==
    FetchOneId({i \in Rows(db.flight) : SqlEqInt(db.flight[i].ladder_id, ladder_id)})
        # None

\* Mutant: db.commit() is left out.
Commit_Forgotten(c) == c

\* Mutant: the existence check is left out.
CheckExisting_Never(c, fd) == c

CheckExisting(c, fd) ==
    IF FlightExists(c.db, fd.FlightID) THEN [c EXCEPT !.err = "ExistingFlight"] ELSE c

ResolvePilot(c, fd) ==
    LET r == GetOrCreatePilot(c.db, fd.Forename, fd.Surname, fd.PilotID)
    IN  IF c.err # "ok" THEN c
        ELSE [c EXCEPT !.db = r.db, !.err = r.err, !.pilot_id = r.ret]

ResolveClub(c, fd) ==
    LET r == GetOrCreateClub(c.db, fd.ClubID)
    IN  IF c.err # "ok" THEN c
        ELSE [c EXCEPT !.db = r.db, !.err = r.err, !.club_id = r.ret]

ResolveGliderModel(c, fd) ==
    LET r == GetOrCreateGliderModel(c.db, fd.Glider, fd.GliderCode)
    IN  IF c.err # "ok" THEN c
        ELSE [c EXCEPT !.db = r.db, !.err = r.err, !.glider_model_id = r.ret]

ResolveGlider(c, fd) ==
    LET r == GetOrCreateGlider(c.db, fd.Registration, c.glider_model_id)
    IN  IF c.err # "ok" THEN c
        ELSE [c EXCEPT !.db = r.db, !.err = r.err, !.glider_id = r.ret]

ArchiveTrace(c, fd, resp) ==
    LET r == DownloadAndArchiveTrace(c.db, c.files, fd, resp)
    IN  IF c.err # "ok" THEN c
        ELSE [c EXCEPT !.db = r.db, !.files = r.files, !.err = r.err,
                       !.trace_id = r.ret, !.downloads = 1]

DecomposeTask(c, fd) ==
    LET r == InsertTask(c.db, fd)
    IN  IF c.err # "ok" THEN c
        ELSE [c EXCEPT !.db = r.db, !.task_id = r.ret]

\* datetime.strptime(s, "%Y-%m-%dT%H:%M:%S"): each directive takes a number of
\* its field, each other character must be there as written.
DateFormat == <<"%Y", "-", "%m", "-", "%d", "T", "%H", ":", "%M", ":", "%S">>

Directive(d) ==
    CASE d = "%Y" -> {"2020", "2021", "2022"}
      [] d = "%m" -> {"01", "06", "12"}
      [] d = "%d" -> {"01", "15", "31"}
      [] d = "%H" -> {"00", "12", "23"}
      [] d = "%M" -> {"00", "30", "59"}
      [] d = "%S" -> {"00", "30", "59"}
      [] OTHER -> {d}

StrptimeOk(s) ==
    /\ Len(s) = Len(DateFormat)
    /\ \A i \in 1..Len(DateFormat) : s[i] \in Directive(DateFormat[i])

\* The datetime parsed: its year, month, day, hour, minute, second.
Strptime(s) == <<s[1], s[3], s[5], s[7], s[9], s[11]>>

ParseFlightDate(c, fd) ==
    IF c.err # "ok" THEN c
    ELSE IF StrptimeOk(fd.FlightDate)
    THEN [c EXCEPT !.flight_date = Strptime(fd.FlightDate)]
    ELSE [c EXCEPT !.err = "ValueError"]

FlightRow(c, fd) ==
    [pilot |-> c.pilot_id, club |-> c.club_id, glider |-> c.glider_id,
     trace |-> c.trace_id, task |-> c.task_id, flight_date |-> c.flight_date,
     ladder_id |-> fd.FlightID]

InsertFlightRow(c, fd) ==
    IF c.err # "ok" THEN c
    ELSE IF FlightLadderIdTaken(c.db, fd.FlightID)
    THEN [c EXCEPT !.err = "IntegrityError"]
    ELSE [c EXCEPT !.db.flight = Append(@, FlightRow(c, fd))]

Commit(c) == IF c.err # "ok" THEN c ELSE [c EXCEPT !.commit = TRUE]

\* Mutant: the existence check comes after the resolvers, the download and the
\* task, right before the flight row is inserted.
InsertBgaFlight_LateCheck(db, files, fd, resp) ==
    LET c == DecomposeTask(
              ArchiveTrace(
               ResolveGlider(
                ResolveGliderModel(
                 ResolveClub(
                  ResolvePilot(Enter(db, files), fd), fd), fd), fd), fd, resp), fd)
    IN  Commit(InsertFlightRow(ParseFlightDate(
            IF c.err = "ok" THEN CheckExisting(c, fd) ELSE c, fd), fd))

InsertBgaFlight(db, files, fd, resp) ==
    Commit(
     InsertFlightRow(
      ParseFlightDate(
       DecomposeTask(
        ArchiveTrace(
         ResolveGlider(
          ResolveGliderModel(
           ResolveClub(
            ResolvePilot(
             CheckExisting(Enter(db, files), fd),
            fd), fd), fd), fd), fd, resp), fd), fd), fd))

(***************************************************************************)
(* The records the ladder service may return.                             *)
(***************************************************************************)
NoTPs == [i \in 1..MaxTP |-> Absent]

\* An ordinary record and an ordinary download.
BaseRecord(id) ==
    [FlightID |-> id, Forename |-> "Ann", Surname |-> "Lee", PilotID |-> 1,
     ClubID |-> "LAS", Glider |-> "ASW20", GliderCode |-> 1,
     Registration |-> "G-CABC", LoggerFile |-> "a.igc", StartPoint |-> StartCode,
     TP |-> NoTPs, FinishPoint |-> Absent, FlightDate |-> GoodDate]

BaseResponse == [status |-> 200, content |-> "A"]

\* The records ingestion is checked on: the ordinary record with its pilot, its
\* club, its glider, its task or its date replaced by each other case.
RecordsOf(id) ==
    LET base == BaseRecord(id)
    IN  {[base EXCEPT !.Forename = f, !.PilotID = p] : f \in Forenames, p \in PilotIDs}
        \cup {[base EXCEPT !.ClubID = c] : c \in ClubIDs}
        \cup {[base EXCEPT !.Glider = g, !.GliderCode = c] :
                    g \in GliderNames, c \in GliderCodes}
        \cup {[base EXCEPT !.Registration = r] : r \in Registrations}
        \cup {[base EXCEPT !.StartPoint = c] : c \in {Absent, "", StartCode}}
        \cup {[base EXCEPT !.FlightDate = d] : d \in FlightDates}

\* A call's inputs: a record and what its trace download answers.
Inputs ==
    {[fd |-> fd, resp |-> BaseResponse] : fd \in UNION {RecordsOf(id) : id \in FlightIDs}}
        \cup {[fd |-> BaseRecord(id), resp |-> r] : id \in FlightIDs, r \in Responses}

(***************************************************************************)
(* Calendar dates: date.today() + timedelta(days=-lookback).               *)
(***************************************************************************)
IsLeap(y) == (y % 4 = 0 /\ y % 100 # 0) \/ y % 400 = 0

DaysInMonth(y, m) ==
    IF m = 2 THEN (IF IsLeap(y) THEN 29 ELSE 28)
    ELSE IF m \in {4, 6, 9, 11} THEN 30 ELSE 31

PrevDay(d) ==
    IF d.day > 1 THEN [d EXCEPT !.day = @ - 1]
    ELSE IF d.month > 1
    THEN [year |-> d.year, month |-> d.month - 1,
          day |-> DaysInMonth(d.year, d.month - 1)]
    ELSE [year |-> d.year - 1, month |-> 12, day |-> 31]

RECURSIVE DaysBefore(_, _)
DaysBefore(d, k) == IF k = 0 THEN d ELSE DaysBefore(PrevDay(d), k - 1)

\* The days a run may start on, and the seasons it may be asked for.
Todays == {[year |-> 2024, month |-> 3, day |-> 1],
           [year |-> 2021, month |-> 1, day |-> 2]}
Seasons == {2021}
NoDate == [year |-> None, month |-> None, day |-> None]

VARIABLES
    db,         \* the database as the open connection sees it
    committed,  \* the database as it is on disk
    files,      \* the archive directory: the files under archive_root
    run,        \* the driver: where it is, its locals, the requests it made
    last,       \* what the latest step's insert_bga_flight call did
    hist        \* for each flight row, the record and download it came from

vars == <<db, committed, files, run, last, hist>>

NoCall == [outcome |-> "none", FlightID |-> None, downloads |-> 0, commits |-> 0]

NoParams == [rows |-> None, Season |-> None, Month |-> None, Day |-> None, page |-> None]

Idle ==
    [pc |-> "idle", mode |-> "none", today |-> NoDate, lookback_days |-> 0,
     lookback |-> 0, params |-> NoParams, n |-> 0, idx |-> 0,
     total_found |-> 0, new_flights |-> 0, calls |-> <<>>, pages |-> <<>>]

Init ==
    /\ db = EmptyDB
    /\ committed = EmptyDB
    /\ files = {}
    /\ run = Idle
    /\ last = NoCall
    /\ hist = <<>>

\* What a flight row came from: the pilot's natural key, the download and the
\* record's task fields.
Origin(fd, resp) ==
    [pilot |-> <<fd.Forename, fd.Surname, fd.PilotID>>,
     status |-> resp.status, content |-> resp.content,
     StartPoint |-> fd.StartPoint, TP |-> fd.TP, FinishPoint |-> fd.FinishPoint]

(***************************************************************************)
(* scrape_day's process callback on one record: insert_bga_flight, with    *)
(* ExistingFlight swallowed.  Any other exception leaves the script, and   *)
(* the connection goes away with what it had not committed.                *)
(***************************************************************************)
Process(fd, resp) ==
    LET r == InsertBgaFlight(db, files, fd, resp)
    IN  /\ db' = IF r.err \in {"ok", "ExistingFlight"} THEN r.db ELSE committed
        /\ committed' = IF r.commit THEN r.db ELSE committed
        /\ files' = r.files
        /\ hist' = IF r.commit THEN Append(hist, Origin(fd, resp)) ELSE hist
        /\ last' = [outcome |-> r.err, FlightID |-> fd.FlightID,
                    downloads |-> r.downloads,
                    commits |-> IF r.commit THEN 1 ELSE 0]

\* Records arrive one after another, whatever drives the callback.
Call(in) == Process(in.fd, in.resp) /\ UNCHANGED run

Next == \E in \in Inputs : Call(in)

Spec == Init /\ [][Next]_vars

\* Task decomposition is checked on every shape of task the first flight may
\* have, among ordinary flights.
TPValues == {Absent, ""} \cup {TPCode(i) : i \in 1..MaxTP}

TaskRecords ==
    {[BaseRecord(1) EXCEPT !.StartPoint = sp, !.TP = tp, !.FinishPoint = fp] :
        sp \in {Absent, "", StartCode},
        tp \in {t \in [1..MaxTP -> TPValues] :
                    \A i \in 1..MaxTP : t[i] \in {Absent, "", TPCode(i)}},
        fp \in {Absent, "", FinishCode}}

TaskInputs ==
    {[fd |-> fd, resp |-> BaseResponse] :
        fd \in TaskRecords \cup {BaseRecord(id) : id \in FlightIDs}}

NextTask == \E in \in TaskInputs : Call(in)

SpecTask == Init /\ [][NextTask]_vars

(***************************************************************************)
(* The drivers: get_daily_flights under scrape_day (in scrape_last_n_days) *)
(* and under scrape_season.                                                *)
(***************************************************************************)
\* get_daily_flights up to its first request.
GetDailyFlights(r, query_date, query_season, query_month, query_day) ==
    [r EXCEPT !.pc = "request",
              !.params = [rows |-> PageSize, Season |-> query_season,
                          Month |-> query_month, Day |-> query_day, page |-> 1],
              !.total_found = 0, !.new_flights = 0, !.pages = <<>>,
              !.n = 0, !.idx = 0,
              !.calls = Append(@, [date |-> query_date, Season |-> query_season,
                                   Month |-> query_month, Day |-> query_day])]

ScrapeDay(r, query_date) ==
    GetDailyFlights(r, query_date, query_date.year, query_date.day, query_date.day)

\* Mutant: the loop also stops on a full page (<= for <).
AfterPage_StopOnFull(r) ==
    LET r1 == [r EXCEPT !.total_found = @ + r.n]
    IN  IF r.n <= r.params.rows THEN [r1 EXCEPT !.pc = "returned"]
        ELSE [r1 EXCEPT !.params.page = @ + 1, !.pc = "request"]

\* The end of the loop body: count the page, stop on a short one.
AfterPage(r) ==
    LET r1 == [r EXCEPT !.total_found = @ + r.n]
    IN  IF r.n < r.params.rows THEN [r1 EXCEPT !.pc = "returned"]
        ELSE [r1 EXCEPT !.params.page = @ + 1, !.pc = "request"]

\* Mutant: new_flights is incremented for a skipped record too.
AfterRecord_CountSkips(r, err) ==
    LET r1 == [r EXCEPT !.idx = @ + 1, !.new_flights = @ + 1]
    IN  IF err \notin {"ok", "ExistingFlight"} THEN [r EXCEPT !.pc = "failed"]
        ELSE IF r1.idx = r1.n THEN AfterPage(r1)
        ELSE r1

\* Mutant: the callback swallows every exception, not only ExistingFlight.
AfterRecord_CatchAll(r, err) ==
    LET r1 == [r EXCEPT !.idx = @ + 1,
                        !.new_flights = IF err = "ok" THEN @ + 1 ELSE @]
    IN  IF r1.idx = r1.n THEN AfterPage(r1) ELSE r1

\* Mutant: the loop over a page leaves its last record out.
AfterRecord_SkipLast(r, err) ==
    LET r1 == [r EXCEPT !.idx = @ + 1,
                        !.new_flights = IF err = "ok" THEN @ + 1 ELSE @]
    IN  IF err \notin {"ok", "ExistingFlight"} THEN [r EXCEPT !.pc = "failed"]
        ELSE IF r1.idx + 1 >= r1.n THEN AfterPage(r1)
        ELSE r1

AfterRecord(r, err) ==
    LET r1 == [r EXCEPT !.idx = @ + 1,
                        !.new_flights = IF err = "ok" THEN @ + 1 ELSE @]
    IN  IF err \notin {"ok", "ExistingFlight"} THEN [r EXCEPT !.pc = "failed"]
        ELSE IF r1.idx = r1.n THEN AfterPage(r1)
        ELSE r1

StartLastNDays(today, lookback_days) ==
    /\ run.pc \in {"idle", "done", "failed"}
    /\ run' = LET r == [Idle EXCEPT !.mode = "days", !.today = today,
                                    !.lookback_days = lookback_days]
              IN  IF lookback_days = 0 THEN [r EXCEPT !.pc = "done"]
                  ELSE ScrapeDay(r, today)
    /\ db' = committed
    /\ last' = NoCall
    /\ UNCHANGED <<committed, files, hist>>

StartSeason(season) ==
    /\ run.pc \in {"idle", "done", "failed"}
    /\ run' = GetDailyFlights([Idle EXCEPT !.mode = "season"],
                              NoDate, season, None, None)
    /\ db' = committed
    /\ last' = NoCall
    /\ UNCHANGED <<committed, files, hist>>

\* requests_get of the next page: a failure, or a page of n records.
RequestPage(status, n) ==
    /\ run.pc = "request"
    /\ run.params.page = MaxPages => n < PageSize
    /\ run' = IF status # 200 THEN [run EXCEPT !.pc = "failed"]
              ELSE LET r == [run EXCEPT !.pc = "process", !.n = n, !.idx = 0,
                                        !.pages = Append(@, [page |-> run.params.page,
                                                             n |-> n])]
                   IN  IF n = 0 THEN AfterPage(r) ELSE r
    /\ db' = IF status # 200 THEN committed ELSE db
    /\ last' = NoCall
    /\ UNCHANGED <<committed, files, hist>>

ProcessRecord(in) ==
    /\ run.pc = "process"
    /\ Process(in.fd, in.resp)
    /\ run' = AfterRecord(run, InsertBgaFlight(db, files, in.fd, in.resp).err)

\* get_daily_flights has returned total_found: scrape_day hands it on with
\* new_flights, and scrape_last_n_days (which only adds the counts up for its
\* log line) goes on to the day before; scrape_season is finished.
Return ==
    /\ run.pc = "returned"
    /\ run' = IF run.mode = "days" /\ run.lookback + 1 < run.lookback_days
              THEN ScrapeDay([run EXCEPT !.lookback = @ + 1],
                             DaysBefore(run.today, run.lookback + 1))
              ELSE [run EXCEPT !.pc = "done"]
    /\ last' = NoCall
    /\ UNCHANGED <<db, committed, files, hist>>

\* The records a whole run is checked on: ordinary ones, one whose pilot is
\* known under another name, one with a malformed date.
RunInputs ==
    {[fd |-> fd, resp |-> BaseResponse] :
        fd \in UNION {{BaseRecord(id),
                       [BaseRecord(id) EXCEPT !.Forename = "Bob"],
                       [BaseRecord(id) EXCEPT !.FlightDate = SpaceDate]} :
                      id \in FlightIDs}}

NextRun ==
    \/ \E today \in Todays, lookback_days \in 0..MaxDays :
            StartLastNDays(today, lookback_days)
    \/ \E season \in Seasons : StartSeason(season)
    \/ \E status \in {200, 404}, n \in 0..PageSize : RequestPage(status, n)
    \/ \E in \in RunInputs : ProcessRecord(in)
    \/ Return

SpecRun == Init /\ [][NextRun]_vars

(***************************************************************************)
(* A run that is killed and run again.  The ladder service answers a       *)
(* season's query with the same listing each time; the script may be       *)
(* killed between any two statements of insert_bga_flight.                 *)
(***************************************************************************)
\* The seasons asked for, one per listing below.
KillSeasons == {2019, 2020, 2021, 2022}

\* The flights of a season in the order the service lists them; in an even
\* season the first flight is listed again at the end.
UpstreamListing(season) ==
    [i \in 1..MaxFlightID |-> i] \o (IF season % 2 = 0 THEN <<1>> ELSE <<>>)

\* What FlightIGC/<id> answers in a season.
UpstreamTrace(season, id) ==
    CASE season = 2019 -> [status |-> 200, content |-> "A"]
      [] season = 2020 -> IF id = 1 THEN [status |-> 404, content |-> ""]
                          ELSE [status |-> 200, content |-> "A"]
      [] season = 2021 -> [status |-> 200, content |-> IF id % 2 = 1 THEN "A" ELSE "B"]
      [] OTHER -> [status |-> 200, content |-> "B"]

\* r.json()["rows"] of a page of the season's listing.
UpstreamPage(season, page) ==
    LET listing == UpstreamListing(season)
        first == (page - 1) * PageSize + 1
        end == IF page * PageSize < Len(listing) THEN page * PageSize ELSE Len(listing)
    IN  SubSeq(listing, first, end)

\* The record the loop is at, with its download.
Current(r) ==
    LET id == UpstreamPage(r.params.Season, r.params.page)[r.idx + 1]
    IN  [fd |-> BaseRecord(id), resp |-> UpstreamTrace(r.params.Season, id)]

\* The statements of insert_bga_flight in order, and the context after the
\* first k of them.
NumSteps == 10

Step(k, c, fd, resp) ==
    CASE k = 1 -> CheckExisting(c, fd)
      [] k = 2 -> ResolvePilot(c, fd)
      [] k = 3 -> ResolveClub(c, fd)
      [] k = 4 -> ResolveGliderModel(c, fd)
      [] k = 5 -> ResolveGlider(c, fd)
      [] k = 6 -> ArchiveTrace(c, fd, resp)
      [] k = 7 -> DecomposeTask(c, fd)
      [] k = 8 -> ParseFlightDate(c, fd)
      [] k = 9 -> InsertFlightRow(c, fd)
      [] OTHER -> Commit(c)

RECURSIVE RunSteps(_, _, _, _, _)
RunSteps(k, db0, files0, fd, resp) ==
    IF k = 0 THEN Enter(db0, files0)
    ELSE Step(k, RunSteps(k - 1, db0, files0, fd, resp), fd, resp)

\* The script is run (again) for a season; one database is kept to one season.
StartKillable(season) ==
    /\ run.pc \in {"idle", "done", "killed"}
    /\ run.params.Season \in {None, season}
    /\ run' = GetDailyFlights([Idle EXCEPT !.mode = "season"],
                              NoDate, season, None, None)
    /\ db' = committed
    /\ last' = NoCall
    /\ UNCHANGED <<committed, files, hist>>

RequestListed ==
    /\ run.pc = "request"
    /\ RequestPage(200, Len(UpstreamPage(run.params.Season, run.params.page)))

ProcessListed ==
    /\ run.pc = "process"
    /\ ProcessRecord(Current(run))

\* Killed after the first k statements of insert_bga_flight on the current
\* record: what was committed and what was written to the archive stay.
Kill(k) ==
    /\ run.pc = "process"
    /\ LET in == Current(run)
           c == RunSteps(k, db, files, in.fd, in.resp)
       IN  /\ committed' = IF c.commit THEN c.db ELSE committed
           /\ db' = IF c.commit THEN c.db ELSE committed
           /\ files' = c.files
           /\ hist' = IF c.commit THEN Append(hist, Origin(in.fd, in.resp)) ELSE hist
           /\ last' = [outcome |-> "killed", FlightID |-> in.fd.FlightID,
                       downloads |-> c.downloads,
                       commits |-> IF c.commit THEN 1 ELSE 0]
    /\ run' = [run EXCEPT !.pc = "killed"]

\* Killed inside download_and_archive_trace while the file is being written:
\* open(full_path, "wb") has emptied the file and not all bytes are in it.
KillInWrite ==
    /\ run.pc = "process"
    /\ LET in == Current(run)
           c == RunSteps(5, db, files, in.fd, in.resp)
           after == RunSteps(6, db, files, in.fd, in.resp)
       IN  /\ c.err = "ok"
           /\ after.files # c.files \/ after.db.trace # c.db.trace
           /\ files' = WriteFile(files, ArchivePath(Sha256(in.resp.content)), "")
           /\ last' = [outcome |-> "killed", FlightID |-> in.fd.FlightID,
                       downloads |-> 1, commits |-> 0]
    /\ db' = committed
    /\ run' = [run EXCEPT !.pc = "killed"]
    /\ UNCHANGED <<committed, hist>>

NextKill ==
    \/ \E season \in KillSeasons : StartKillable(season)
    \/ RequestListed
    \/ ProcessListed
    \/ \E k \in 0..NumSteps : Kill(k)
    \/ KillInWrite
    \/ Return

SpecKill == Init /\ [][NextKill]_vars

(***************************************************************************)
(* Properties.                                                             *)
(***************************************************************************)
\* The step was an insert_bga_flight call on a record with this FlightID.
Called(id) == last'.FlightID = id /\ last'.outcome # "none"

FlightRowsOf(d, id) == {i \in Rows(d.flight) : d.flight[i].ladder_id = id}

\* C1: insert_bga_flight is idempotent per FlightID.  The flight table never
\* holds two rows with one ladder id; a call that completes adds exactly one
\* row, with the record's FlightID, and commits it; a call whose FlightID is
\* stored raises ExistingFlight and adds no row.
C1_OneRowPerFlightID ==
    \A id \in FlightIDs : Cardinality(FlightRowsOf(db, id)) <= 1

C1_CallEffect ==
    \A id \in FlightIDs : Called(id) =>
        /\ FlightRowsOf(db, id) # {} =>
                last'.outcome = "ExistingFlight" /\ db'.flight = db.flight
        /\ last'.outcome = "ok" =>
                /\ FlightRowsOf(db, id) = {}
                /\ db'.flight = Append(db.flight, db'.flight[Len(db'.flight)])
                /\ db'.flight[Len(db'.flight)].ladder_id = id
        /\ last'.outcome # "ok" => db'.flight = db.flight

C1_Idempotent == [](C1_OneRowPerFlightID) /\ [][C1_CallEffect]_vars

\* A flight is stored once and a second call with its FlightID was refused.
C1_Witness ==
    /\ last.outcome = "ExistingFlight"
    /\ Cardinality(FlightRowsOf(db, last.FlightID)) = 1
    /\ Len(db.flight) = MaxFlightID

\* C2: a call with a stored FlightID changes nothing: no row of any table, no
\* download request, no file, no commit.
C2_ExistingChangesNothing ==
    [][\A id \in FlightIDs :
        (Called(id) /\ FlightRowsOf(db, id) # {}) =>
            /\ db' = db
            /\ committed' = committed
            /\ files' = files
            /\ hist' = hist
            /\ last'.downloads = 0
            /\ last'.commits = 0]_vars

\* A stored flight was offered again, with a trace on file and other flights
\* still to come.
C2_Witness ==
    /\ last.outcome = "ExistingFlight"
    /\ last.downloads = 0
    /\ Len(db.flight) = 1
    /\ files # {}

\* C3: traces are content-addressed.  One trace row and one file per hash; a
\* flight's trace row is the row of the hash of the bytes downloaded for it, so
\* flights with identical bytes share a row; bytes whose row exists add neither
\* a row nor a file.
C3_TraceState ==
    /\ \A i, j \in Rows(db.trace) :
            db.trace[i].sha256_hash = db.trace[j].sha256_hash => i = j
    /\ \A f, g \in files : f.path.name = g.path.name => f = g
    /\ \A i \in Rows(db.flight) : hist[i].status = 200 =>
            /\ db.flight[i].trace \in Rows(db.trace)
            /\ db.trace[db.flight[i].trace].sha256_hash = Sha256(hist[i].content)
    /\ \A i, j \in Rows(db.flight) :
            (hist[i].status = 200 /\ hist[j].status = 200
                /\ hist[i].content = hist[j].content)
            => db.flight[i].trace = db.flight[j].trace

C3_SecondArchive ==
    (/\ Len(hist') = Len(hist) + 1
     /\ hist'[Len(hist')].status = 200
     /\ \E i \in Rows(db.trace) :
            db.trace[i].sha256_hash = Sha256(hist'[Len(hist')].content))
    => db'.trace = db.trace /\ files' = files

C3_ContentAddressed == [](C3_TraceState) /\ [][C3_SecondArchive]_vars

\* Two flights with different FlightIDs and the same bytes: one row, one file.
C3_Witness ==
    /\ Len(db.flight) = 2
    /\ hist[1].status = 200 /\ hist[2].status = 200
    /\ hist[1].content = hist[2].content
    /\ db.flight[1].trace = db.flight[2].trace
    /\ Len(db.trace) = 1
    /\ Cardinality(files) = 1

\* C4: each resolver, called twice with one natural key, returns the same id
\* both times and leaves exactly one row with that key; and flights from records
\* with one pilot key reference one pilot row.  (Keys with a known ladder id
\* only: the claim also covers a pilot whose ladder id is null.)
TwiceSame(r1, r2, rows) ==
    r1.err = "ok" /\ r2.err = "ok" /\ r1.ret = r2.ret /\ Cardinality(rows) = 1

C4_ResolversStable ==
    /\ \A f \in Forenames, s \in Surnames, p \in PilotIDs \ {None} :
        LET r1 == GetOrCreatePilot(db, f, s, p)
            r2 == GetOrCreatePilot(r1.db, f, s, p)
        IN  TwiceSame(r1, r2, {i \in Rows(r2.db.pilot) : r2.db.pilot[i] =
                    [forename |-> f, surname |-> s, ladder_id |-> p]})
    /\ \A c \in ClubIDs :
        LET r1 == GetOrCreateClub(db, c)
            r2 == GetOrCreateClub(r1.db, c)
        IN  TwiceSame(r1, r2, {i \in Rows(r2.db.club) : r2.db.club[i].ladder_code = c})
    /\ \A g \in GliderNames, c \in GliderCodes :
        LET r1 == GetOrCreateGliderModel(db, g, c)
            r2 == GetOrCreateGliderModel(r1.db, g, c)
        IN  TwiceSame(r1, r2, {i \in Rows(r2.db.glider_model) :
                                    r2.db.glider_model[i].model_name = g})
    /\ \A reg \in Registrations, m \in Rows(db.glider_model) :
        LET r1 == GetOrCreateGlider(db, reg, m)
            r2 == GetOrCreateGlider(r1.db, reg, m)
        IN  TwiceSame(r1, r2, {i \in Rows(r2.db.glider) : r2.db.glider[i].reg = reg})
    /\ \A i, j \in Rows(db.flight) :
        hist[i].pilot = hist[j].pilot => db.flight[i].pilot = db.flight[j].pilot

\* C5: flights are committed one by one.  A completed insert is on disk at
\* once; no step removes or changes a committed row; a step that fails leaves
\* the committed tables as they were, and the next run starts from them; a
\* record whose flight is committed is never inserted again.
IsPrefix(a, b) == Len(a) <= Len(b) /\ SubSeq(b, 1, Len(a)) = a

Durable(d, e) ==
    /\ IsPrefix(d.pilot, e.pilot)
    /\ IsPrefix(d.club, e.club)
    /\ IsPrefix(d.glider_model, e.glider_model)
    /\ IsPrefix(d.glider, e.glider)
    /\ IsPrefix(d.trace, e.trace)
    /\ IsPrefix(d.task, e.task)
    /\ IsPrefix(d.flight, e.flight)

C5_Step ==
    /\ Durable(committed, committed')
    /\ last'.outcome = "ok" =>
            /\ committed' = db'
            /\ FlightRowsOf(committed', last'.FlightID) # {}
    /\ run'.pc = "failed" => committed' = committed /\ db' = committed
    /\ \A id \in FlightIDs :
            (Called(id) /\ FlightRowsOf(committed, id) # {}) =>
                last'.outcome = "ExistingFlight" /\ committed' = committed

C5_CommittedFlightsSurvive == [][C5_Step]_vars

\* Record N of a run failed after the run had committed a flight, and that
\* flight is on disk.
C5_Witness ==
    /\ run.pc = "failed"
    /\ last.outcome \in {"ValueError", "IntegrityError"}
    /\ run.new_flights >= 1
    /\ Len(committed.flight) >= 1

\* C6: get_daily_flights requests pages 1, 2, ... in order; every page before
\* the latest was full; it goes on to a further request only after a full page
\* and returns only after a page shorter than the page size, with the sum of
\* the page sizes.
RECURSIVE SumOfPages(_)
SumOfPages(pages) ==
    IF pages = <<>> THEN 0 ELSE pages[1].n + SumOfPages(Tail(pages))

C6_Pagination ==
    LET pages == run.pages
        k == Len(pages)
        P == run.params.rows
    IN  /\ \A i \in 1..k : pages[i].page = i
        /\ \A i \in 1..(k - 1) : ~(pages[i].n < P)
        /\ run.pc = "request" =>
                run.params.page = k + 1 /\ (k > 0 => ~(pages[k].n < P))
        /\ run.pc = "process" =>
                run.params.page = k /\ run.n = pages[k].n /\ run.idx < run.n
        /\ run.pc = "returned" =>
                /\ k >= 1
                /\ run.params.page = k
                /\ pages[k].n < P
                /\ run.total_found = SumOfPages(pages)

\* Two full pages and an empty third: three requests, 2 * P records.
C6_Witness ==
    /\ run.pc = "returned"
    /\ Len(run.pages) = 3
    /\ run.pages[1].n = PageSize /\ run.pages[2].n = PageSize /\ run.pages[3].n = 0
    /\ run.total_found = 2 * PageSize

\* C7: the task rows a flight's insertion writes are the start code if present
\* and non-empty, then TP1..TPk for the longest run of present, non-empty TPs
\* from TP1, then the finish code if present and non-empty, at positions
\* 0, 1, ..., all under the flight's task id.
Present(code) == code # Absent /\ code # ""

Leading(tp) ==
    LET k == CHOOSE j \in 0..Len(tp) :
                /\ \A i \in 1..j : Present(tp[i])
                /\ j < Len(tp) => ~Present(tp[j + 1])
    IN  SubSeq(tp, 1, k)

Expected(o) ==
    (IF Present(o.StartPoint) THEN <<o.StartPoint>> ELSE <<>>)
        \o Leading(o.TP)
        \o (IF Present(o.FinishPoint) THEN <<o.FinishPoint>> ELSE <<>>)

C7_Step ==
    Len(hist') = Len(hist) + 1 =>
        LET e == Expected(hist'[Len(hist')])
            t == db'.flight[Len(db'.flight)].task
        IN  db'.task = db.task \o
                [i \in 1..Len(e) |->
                    [id |-> t, turnpoint_index |-> i - 1, turnpoint_code |-> e[i]]]

C7_TurnpointSequence == [][C7_Step]_vars

\* A flight whose record had no TP1 but a TP2, a start and a finish: its rows
\* are the start and the finish.
C7_Witness ==
    \E i \in Rows(db.flight) :
        /\ ~Present(hist[i].TP[1])
        /\ hist[i].TP[2] = TPCode(2)
        /\ hist[i].StartPoint = StartCode
        /\ hist[i].FinishPoint = FinishCode
        /\ Len(db.flight) = 1
        /\ Len(db.task) = 2

\* C8: no two flight rows reference one task id, and the task rows under a
\* flight's task id are the rows written for that flight.
C8_TasksNotShared ==
    /\ \A i, j \in Rows(db.flight) : i # j => db.flight[i].task # db.flight[j].task
    /\ \A i \in Rows(db.flight) :
        LET e == Expected(hist[i])
            t == db.flight[i].task
        IN  SelectSeq(db.task, LAMBDA r : r.id = t) =
                [k \in 1..Len(e) |->
                    [id |-> t, turnpoint_index |-> k - 1, turnpoint_code |-> e[k]]]

\* C9: a trace download that fails with NotFound does not stop the flight: the
\* call ends as it would with a download that succeeds, NotFound never leaves
\* insert_bga_flight, and the flight is committed with a null trace and its
\* pilot, club and glider resolved, without a trace row or a file being added.
NotFoundResponse == [status |-> 404, content |-> ""]

C9_State ==
    /\ last.outcome # "NotFound"
    /\ \A in \in Inputs :
        InsertBgaFlight(db, files, in.fd, NotFoundResponse).err
            = InsertBgaFlight(db, files, in.fd, BaseResponse).err
    /\ \A i \in Rows(db.flight) : hist[i].status # 200 =>
        /\ db.flight[i].trace = None
        /\ db.flight[i].pilot \in Rows(db.pilot)
        /\ db.flight[i].club \in Rows(db.club)
        /\ db.flight[i].glider \in Rows(db.glider)
        /\ db.flight[i].task # None
        /\ committed.flight[i] = db.flight[i]

C9_Step ==
    (Len(hist') = Len(hist) + 1 /\ hist'[Len(hist')].status # 200) =>
        /\ db'.trace = db.trace
        /\ files' = files
        /\ last'.outcome = "ok"
        /\ last'.downloads = 1
        /\ last'.commits = 1

C9_MissingTraceTolerated == [](C9_State) /\ [][C9_Step]_vars

\* The latest call's download was not found and its flight is committed with
\* no trace.
C9_Witness ==
    /\ last.outcome = "ok"
    /\ Len(db.flight) >= 1
    /\ hist[Len(hist)].status = 404
    /\ db.flight[Len(db.flight)].trace = None
    /\ db.flight[Len(db.flight)].ladder_id = last.FlightID
    /\ committed = db

\* C10: scrape_last_n_days makes one get_daily_flights call per day, for today,
\* the day before, ..., each with that day's year, month and day as Season,
\* Month and Day.
C10_DayCalls ==
    run.mode = "days" =>
        /\ Len(run.calls) <= run.lookback_days
        /\ run.pc = "done" => Len(run.calls) = run.lookback_days
        /\ \A i \in Rows(run.calls) :
            LET d == DaysBefore(run.today, i - 1)
            IN  run.calls[i] = [date |-> d, Season |-> d.year,
                                Month |-> d.month, Day |-> d.day]

\* C11: get_daily_flights calls process once for each record of a page, in the
\* page's order, page after page: a call is always for the next unprocessed
\* position of the latest page, a page is requested only when every record of
\* the pages before it has been processed, and so a request that fails finds
\* the records of the earlier pages processed.
C11_State ==
    /\ run.pc = "request" =>
            /\ run.idx = run.n
            /\ run.params.page = Len(run.pages) + 1
            /\ Len(run.pages) > 0 => run.n = run.pages[Len(run.pages)].n
    /\ run.pc = "process" =>
            /\ run.idx < run.n
            /\ run.pages[Len(run.pages)] = [page |-> run.params.page, n |-> run.n]

C11_Step ==
    /\ last'.outcome # "none" =>
            /\ run.pc = "process"
            /\ run'.pages = run.pages
            /\ run'.pc = "failed" \/ run'.idx = run.idx + 1
            /\ run'.pc = "process" => run'.n = run.n /\ run'.params.page = run.params.page
    /\ Len(run'.pages) = Len(run.pages) + 1 =>
            /\ run.pc = "request"
            /\ run.idx = run.n
            /\ last'.outcome = "none"
            /\ run'.pages = Append(run.pages, [page |-> run.params.page, n |-> run'.n])
    /\ (run.pc = "request" /\ run'.pc = "failed") =>
            run'.pages = run.pages /\ run'.idx = run.idx /\ run'.n = run.n

C11_RecordsInOrder == [](C11_State) /\ [][C11_Step]_vars

\* The request for page 2 fails after the full page 1 was processed.
C11_Witness ==
    /\ run.pc = "failed"
    /\ last.outcome = "none"
    /\ run.params.page = 2
    /\ run.pages = <<[page |-> 1, n |-> PageSize]>>
    /\ run.idx = PageSize
    /\ Len(committed.flight) >= 1

\* C12: a run may be killed after any statement of insert_bga_flight and run
\* again on the same listing.  A kill leaves the committed flights as they
\* were, or with the in-flight one added when it came after the commit; on the
\* run after it a record whose flight is committed is skipped (ExistingFlight,
\* nothing written) and any other is ingested from its first statement; when
\* the run is done there is one flight row per listed FlightID and one trace
\* row per hash downloaded.
UpstreamIDs(season) ==
    {UpstreamListing(season)[i] : i \in DOMAIN UpstreamListing(season)}

UpstreamHashes(season) ==
    {Sha256(UpstreamTrace(season, id).content) :
        id \in {i \in UpstreamIDs(season) : UpstreamTrace(season, i).status = 200}}

C12_State ==
    /\ \A i, j \in Rows(committed.flight) :
            i # j => committed.flight[i].ladder_id # committed.flight[j].ladder_id
    /\ \A i, j \in Rows(committed.trace) :
            i # j => committed.trace[i].sha256_hash # committed.trace[j].sha256_hash
    /\ run.pc = "done" =>
            /\ db = committed
            /\ {committed.flight[i].ladder_id : i \in Rows(committed.flight)}
                    = UpstreamIDs(run.params.Season)
            /\ Len(committed.flight) = Cardinality(UpstreamIDs(run.params.Season))
            /\ {committed.trace[i].sha256_hash : i \in Rows(committed.trace)}
                    = UpstreamHashes(run.params.Season)
            /\ Len(committed.trace) = Cardinality(UpstreamHashes(run.params.Season))

C12_Step ==
    /\ last'.outcome \notin {"none", "killed"} =>
            IF FlightRowsOf(committed, last'.FlightID) # {}
            THEN /\ last'.outcome = "ExistingFlight"
                 /\ last'.downloads = 0
                 /\ committed' = committed /\ files' = files
            ELSE /\ last'.outcome = "ok"
                 /\ last'.downloads = 1 /\ last'.commits = 1
                 /\ Len(committed'.flight) = Len(committed.flight) + 1
                 /\ Durable(committed, committed')
    /\ last'.outcome = "killed" =>
            /\ db' = committed'
            /\ IF last'.commits = 1
               THEN /\ Durable(committed, committed')
                    /\ Len(committed'.flight) = Len(committed.flight) + 1
                    /\ FlightRowsOf(committed, last'.FlightID) = {}
                    /\ FlightRowsOf(committed', last'.FlightID) # {}
               ELSE committed' = committed
    /\ (run.pc \in {"killed", "done"} /\ run'.pc = "request") =>
            /\ run'.params.Season = run.params.Season
            /\ committed' = committed /\ db' = committed /\ files' = files

C12_KilledAndRerun == [](C12_State) /\ [][C12_Step]_vars

\* A run is done that found one flight committed and ingested the other: the
\* run before it was killed with one flight committed.
C12_Witness ==
    /\ run.pc = "done"
    /\ run.params.Season = 2020
    /\ run.new_flights = 1
    /\ run.total_found = 3
    /\ Len(committed.flight) = 2
    /\ Len(committed.trace) = 1

\* C13 as amended: the task id a flight gets is the number of distinct task
\* ids in the task table at the time of the call; the first one is 0.
TaskIdsIn(d) == {d.task[i].id : i \in Rows(d.task)}

C13_Step ==
    last'.outcome = "ok" =>
        db'.flight[Len(db'.flight)].task = Cardinality(TaskIdsIn(db))

C13_TaskIdIsCount == [][C13_Step]_vars

\* C13 as claimed: the task id is one greater than that number.
C13_OneGreaterStep ==
    last'.outcome = "ok" =>
        db'.flight[Len(db'.flight)].task = Cardinality(TaskIdsIn(db)) + 1

C13_TaskIdOneGreater == [][C13_OneGreaterStep]_vars

\* A second flight got task id 1 while the table held the two rows of task 0.
C13_Witness ==
    /\ Len(db.flight) = 2
    /\ db.flight[1].task = 0
    /\ db.flight[2].task = 1
    /\ Cardinality({i \in Rows(db.task) : db.task[i].id = 0}) = 2
    /\ \E i \in Rows(db.task) : db.task[i].id = 1

\* C14: when a trace row with the hash of the downloaded bytes exists,
\* download_and_archive_trace returns that row's id, writes no file and leaves
\* the trace table and the archive as they are; the flight ingested then
\* references that row.
C14_State ==
    \A in \in Inputs : \A i \in Rows(db.trace) :
        (in.resp.status = 200 /\ db.trace[i].sha256_hash = Sha256(in.resp.content)) =>
            LET r == DownloadAndArchiveTrace(db, files, in.fd, in.resp)
            IN  /\ r.ret = i
                /\ r.err = "ok"
                /\ r.writes = 0
                /\ r.db = db
                /\ r.files = files

C14_Step ==
    \A i \in Rows(db.trace) :
        (/\ last'.outcome = "ok"
         /\ hist'[Len(hist')].status = 200
         /\ db.trace[i].sha256_hash = Sha256(hist'[Len(hist')].content))
        => /\ db'.flight[Len(db'.flight)].trace = i
           /\ db'.trace[i] = db.trace[i]
           /\ Len(db'.trace) = Len(db.trace)
           /\ {f.path : f \in files'} = {f.path : f \in files}

C14_DedupShortCircuit == [](C14_State) /\ [][C14_Step]_vars

\* Flight 2 was stored with bytes "B"; flight 1 came later with the same bytes
\* and references the row stored for flight 2: one row, one file.
C14_Witness ==
    /\ last.outcome = "ok"
    /\ last.FlightID = 1
    /\ Len(db.flight) = 2
    /\ db.flight[1].ladder_id = 2
    /\ hist[1].content = "B" /\ hist[2].content = "B"
    /\ db.flight[1].trace = 1 /\ db.flight[2].trace = 1
    /\ Len(db.trace) = 1
    /\ Cardinality(files) = 1

\* C15: a FlightDate that does not parse ends the run: the call commits
\* nothing and the rows it wrote are gone with the connection, the run goes
\* on to no further record and no further page, and the committed tables never
\* hold a row that no committed flight accounts for.
Referenced(d) ==
    /\ \A p \in Rows(d.pilot) : \E i \in Rows(d.flight) : d.flight[i].pilot = p
    /\ \A c \in Rows(d.club) : \E i \in Rows(d.flight) : d.flight[i].club = c
    /\ \A g \in Rows(d.glider) : \E i \in Rows(d.flight) : d.flight[i].glider = g
    /\ \A m \in Rows(d.glider_model) : \E g \in Rows(d.glider) : d.glider[g].model = m
    /\ \A t \in Rows(d.trace) : \E i \in Rows(d.flight) : d.flight[i].trace = t
    /\ \A k \in Rows(d.task) : \E i \in Rows(d.flight) : d.flight[i].task = d.task[k].id

C15_State ==
    /\ Referenced(committed)
    /\ run.pc = "failed" => db = committed

C15_Step ==
    /\ last'.outcome = "ValueError" =>
            /\ run.pc = "process" /\ run'.pc = "failed"
            /\ last'.commits = 0
            /\ committed' = committed /\ db' = committed /\ hist' = hist
            /\ run'.idx = run.idx /\ run'.pages = run.pages
            /\ run'.new_flights = run.new_flights
    /\ run.pc = "failed" =>
            /\ last'.outcome = "none"
            /\ run'.pages = <<>>
            /\ committed' = committed /\ db' = committed

C15_BadDateStopsRun == [](C15_State) /\ [][C15_Step]_vars

\* The first record of the second page had a malformed date: its trace file is
\* in the archive, the tables hold the flights of page 1 and nothing of it.
C15_Witness ==
    /\ run.pc = "failed"
    /\ last.outcome = "ValueError"
    /\ run.params.page = 2 /\ run.idx = 0
    /\ Len(committed.flight) = 1
    /\ last.FlightID \notin {committed.flight[i].ladder_id : i \in Rows(committed.flight)}
    /\ last.downloads = 1
    /\ db = committed

\* C16: rows are append-only: every step leaves each row of every committed
\* table in its place with its field values, a call that ends normally only
\* adds rows to what the connection sees, and a resolver that finds a row for
\* its key returns the tables as they are.
Extends(d, e) ==
    \A t \in {"pilot", "club", "glider_model", "glider", "trace", "task", "flight"} :
        /\ Len(d[t]) <= Len(e[t])
        /\ \A i \in Rows(d[t]) : e[t][i] = d[t][i]

C16_State ==
    /\ \A i \in Rows(db.pilot) : \A f \in Forenames, s \in Surnames, p \in PilotIDs :
            (db.pilot[i] = [forename |-> f, surname |-> s, ladder_id |-> p] /\ p # None)
                => GetOrCreatePilot(db, f, s, p) = Ok(db, i)
    /\ \A i \in Rows(db.club) :
            GetOrCreateClub(db, db.club[i].ladder_code) = Ok(db, i)
    /\ \A i \in Rows(db.glider_model) :
            GetOrCreateGliderModel(db, db.glider_model[i].model_name,
                                   db.glider_model[i].ladder_id) = Ok(db, i)
    /\ \A i \in Rows(db.glider) : \A m \in Rows(db.glider_model) \cup {None} :
            GetOrCreateGlider(db, db.glider[i].reg, m) = Ok(db, i)

C16_Step ==
    /\ Extends(committed, committed')
    /\ last'.outcome \in {"ok", "ExistingFlight"} => Extends(db, db')

C16_AppendOnly == [](C16_State) /\ [][C16_Step]_vars

\* The glider G-CABC was stored with model 1; a later flight of G-CABC came
\* with another model, which was added, and the glider row still has model 1.
C16_Witness ==
    /\ Len(committed.flight) = 2
    /\ Len(committed.glider_model) = 2
    /\ Len(committed.glider) = 1
    /\ committed.glider[1].model = 1
    /\ committed.flight[1].glider = 1 /\ committed.flight[2].glider = 1
    /\ last.outcome = "ok"

\* C17: within one get_daily_flights call new_flights counts the flights
\* committed: it starts at 0, goes up by one exactly on a call that commits a
\* flight row and stays on a call that ends in ExistingFlight; it never
\* exceeds the number of records processed, and at the return total_found is
\* that number, so the skips are total_found - new_flights.
Processed(r) ==
    SumOfPages(r.pages) - (IF r.pc = "process" THEN r.n - r.idx ELSE 0)

C17_State ==
    /\ run.pc \in {"process", "request", "returned"} =>
            run.new_flights <= Processed(run)
    /\ run.pc = "returned" =>
            /\ run.total_found = Processed(run)
            /\ run.new_flights <= run.total_found

C17_Step ==
    /\ last'.outcome = "ok" =>
            /\ run'.new_flights = run.new_flights + 1
            /\ Len(committed'.flight) = Len(committed.flight) + 1
    /\ last'.outcome = "ExistingFlight" =>
            /\ run'.new_flights = run.new_flights
            /\ committed' = committed
    /\ last'.outcome = "none" => committed' = committed
    /\ (run.pc # "request" /\ run'.pc = "request" /\ run'.pages = <<>>) =>
            run'.new_flights = 0 /\ run'.total_found = 0
    /\ (run.pc = "request" /\ last'.outcome = "none") =>
            run'.new_flights = run.new_flights
    /\ (run.pc = "returned" /\ run'.pc = "done") =>
            /\ run'.new_flights = run.new_flights
            /\ run'.total_found = run.total_found

C17_NewFlightCount == [](C17_State) /\ [][C17_Step]_vars

\* A season's scrape has returned: three records found, one of them new, two
\* skipped as existing.
C17_Witness ==
    /\ run.pc = "returned"
    /\ run.mode = "season"
    /\ run.total_found = 3
    /\ run.new_flights = 1
    /\ Len(committed.flight) = 2

\* C18: in every committed state each flight row's pilot, club and glider are
\* ids of rows, its task id has at least one task row, its trace is null or
\* the id of a trace row, and every trace row is referenced by a flight row.
C18_ReferencesExist ==
    /\ \A i \in Rows(committed.flight) :
        LET f == committed.flight[i]
        IN  /\ f.pilot \in Rows(committed.pilot)
            /\ f.club \in Rows(committed.club)
            /\ f.glider \in Rows(committed.glider)
            /\ \E k \in Rows(committed.task) : committed.task[k].id = f.task
            /\ f.trace = None \/ f.trace \in Rows(committed.trace)
    /\ \A t \in Rows(committed.trace) :
            \E i \in Rows(committed.flight) : committed.flight[i].trace = t

\* C19: every trace row, committed or seen by the connection after any
\* statement of insert_bga_flight, has its file in the archive under
\* <hash[0]>/<hash[1]>/<hash>, holding the bytes downloaded for a flight that
\* references the row, and those bytes hash to the row's sha256_hash; the
\* committed trace table grows only in a step that commits a flight
\* referencing the new row.  A file may be there without a row.
HasFile(fs, sha256_hash) ==
    \E f \in fs :
        /\ f.path = [dir1 |-> sha256_hash[1], dir2 |-> sha256_hash[2],
                     name |-> sha256_hash]
        /\ Sha256(f.content) = sha256_hash

C19_State ==
    /\ \A t \in Rows(committed.trace) :
        /\ HasFile(files, committed.trace[t].sha256_hash)
        /\ \E i \in Rows(committed.flight) :
            /\ committed.flight[i].trace = t
            /\ hist[i].status = 200
            /\ [path |-> ArchivePath(committed.trace[t].sha256_hash),
                content |-> hist[i].content] \in files
    /\ run.pc = "process" =>
        \A k \in 0..NumSteps :
            LET c == RunSteps(k, db, files, Current(run).fd, Current(run).resp)
            IN  \A t \in Rows(c.db.trace) : HasFile(c.files, c.db.trace[t].sha256_hash)

C19_Step ==
    committed'.trace # committed.trace =>
        /\ committed'.trace = Append(committed.trace,
                                     committed'.trace[Len(committed'.trace)])
        /\ Len(committed'.flight) = Len(committed.flight) + 1
        /\ committed'.flight[Len(committed'.flight)].trace = Len(committed'.trace)
        /\ last'.commits = 1

C19_TraceRowsHaveFiles == [](C19_State) /\ [][C19_Step]_vars

\* The run was killed while it wrote the second flight's file: the first
\* flight's trace row has its file whole, and the emptied file has no row.
C19_Witness ==
    /\ run.pc = "killed"
    /\ last.outcome = "killed"
    /\ Len(committed.flight) = 1
    /\ Len(committed.trace) = 1
    /\ HasFile(files, committed.trace[1].sha256_hash)
    /\ \E f \in files :
            /\ f.content = ""
            /\ \A t \in Rows(committed.trace) : committed.trace[t].sha256_hash # f.path.name
====
